---- MODULE Spec2Model ----
(***************************************************************************)
(* A model of redisweb's introspection engine (src/app.py): the key        *)
(* inspector, the database enumerator, the database sampler and the        *)
(* server stats aggregator, run by request threads against one shared      *)
(* redis client while an external writer changes the store.               *)
(*                                                                         *)
(* Python values are tagged records [k, v]: bytes, str, int and None are   *)
(* different values, as they are in Python (b"list" != "list").            *)
(* The store answers as redis does: a command on a missing key answers     *)
(* nil / 0 / -2, a command on a key of another type answers WRONGTYPE,     *)
(* DEBUG OBJECT on a missing key answers "no such key".                    *)
(***************************************************************************)
EXTENDS Integers, Sequences, FiniteSets, TLC

VARIABLES
    store,      \* store[d][key]: the value held under key in database d
    seldb,      \* the database selected on the pooled connection
    legacy,     \* the redis-py build: TRUE when redis.Redis is the 2.x class
    writes,     \* how many writes the external writer has made
    pc,         \* pc[t]: where request thread t stands
    req,        \* req[t]: the request thread t serves
    loc,        \* loc[t]: the locals of the function thread t runs
    res,        \* res[t]: what the function returned or raised
    up,         \* whether the store answers
    info,       \* the store's INFO reply
    slowlog,    \* the store's slowlog entries
    connection, \* server.__dict__["connection"]: the cached client
    stats       \* server.__dict__["stats"]: <<>>, or <<the cached dict>>

vars == <<store, seldb, legacy, writes, pc, req, loc, res,
          up, info, slowlog, connection, stats>>

engineVars == <<store, seldb, legacy, writes, pc, req, loc, res>>
statsVars == <<up, info, slowlog, connection, stats>>

---------------------------------------------------------------------------
\* Bounds of the model.

NumDbs == 2
MaxWrites == 1
MaxCount == 2
MaxDraws == 2
MaxClients == 2
MaxSlowlog == 1

DBs == 0..(NumDbs - 1)
Threads == {1, 2}

\* The key universe, in the order sorted() gives.
AllKeys == <<"a", "bb">>
Keys == {AllKeys[i] : i \in 1..Len(AllKeys)}

---------------------------------------------------------------------------
\* Python values.

PyBytes(s) == [k |-> "bytes", v |-> s, utf8 |-> TRUE]
RawBytes(s) == [k |-> "bytes", v |-> s, utf8 |-> FALSE]
PyStr(s) == [k |-> "str", v |-> s]
PyInt(n) == [k |-> "int", v |-> n]
PyNone == [k |-> "None", v |-> 0]
PySeq(x) == [k |-> "seq", v |-> x]
Err(s) == [k |-> "err", v |-> s]
NA == PyStr("n/a")

\* Python's ==, on two values of the model: values of different types differ.
PyEq(x, y) == x.k = y.k /\ x.v = y.v
IsNone(x) == x.k = "None"

Raise(e, m) == [raised |-> TRUE, exc |-> e, msg |-> m]
Return(v) == [raised |-> FALSE, value |-> v]
NoResult == [raised |-> FALSE, value |-> PyNone]

_decode_bytes(value) ==
    IF value.k = "bytes" /\ value.utf8 THEN PyStr(value.v) ELSE value

---------------------------------------------------------------------------
\* The store.

\* A value: its type, the TTL the store reports for it (-1: no expiry, 0: less
\* than a second left), its serialized length and its elements (a hash holds
\* field, value, field, value, ... as HGETALL sends them).
\* utf8 tells whether the bytes of a string value decode as text.
Value(type, ttl, slen, elems, utf8) ==
    [type |-> type, ttl |-> ttl, slen |-> slen, elems |-> elems, utf8 |-> utf8]

NoKey == Value("none", -2, 0, <<>>, TRUE)

StringX == Value("string", -1, 2, <<"x">>, TRUE)
StringRaw == Value("string", 100, 4, <<"raw">>, FALSE)
List123 == Value("list", 100, 5, <<"1", "2", "3">>, TRUE)
SetV == Value("set", -1, 3, <<"m">>, TRUE)
ZsetV == Value("zset", 100, 6, <<"z">>, TRUE)
HashV == Value("hash", 0, 3, <<"f", "v">>, TRUE)

WriteValues == {StringX, StringRaw, List123, SetV, ZsetV, HashV}

EncodingOf(type) ==
    CASE type = "string" -> "embstr"
      [] type = "list" -> "quicklist"
      [] type = "set" -> "hashtable"
      [] type = "zset" -> "ziplist"
      [] OTHER -> "ziplist"

LENGTH_GETTERS ==
    ("list" :> "LLEN") @@ ("string" :> "STRLEN") @@ ("set" :> "SCARD")
    @@ ("zset" :> "ZCOUNT") @@ ("hash" :> "HLEN")

VALUE_GETTERS ==
    ("list" :> "LRANGE") @@ ("string" :> "GET") @@ ("set" :> "SMEMBERS")
    @@ ("zset" :> "ZRANGE") @@ ("hash" :> "HGETALL") @@ ("n/a" :> "")

\* The type a length or content command works on.
TypeOfCmd ==
    ("LLEN" :> "list") @@ ("STRLEN" :> "string") @@ ("SCARD" :> "set")
    @@ ("ZCOUNT" :> "zset") @@ ("HLEN" :> "hash") @@ ("LRANGE" :> "list")
    @@ ("GET" :> "string") @@ ("SMEMBERS" :> "set") @@ ("ZRANGE" :> "zset")
    @@ ("HGETALL" :> "hash")

Cmd(c, key) == [cmd |-> c, key |-> key]

RECURSIVE Digits(_)
\* The decimal text of a natural number, as the store prints it.
Digits(n) == IF n < 10 THEN <<n>> ELSE Append(Digits(n \div 10), n % 10)

Txt(s) == [num |-> FALSE, s |-> s, d |-> <<>>]
Num(n) == [num |-> TRUE, s |-> "", d |-> Digits(n)]

\* The text DEBUG OBJECT answers for value v, split at whitespace and then at ":".
DebugObjectText(v) ==
    << <<Txt("Value")>>, <<Txt("at"), Txt("0x7f")>>,
       <<Txt("refcount"), Num(1)>>,
       <<Txt("encoding"), Txt(EncodingOf(v.type))>>,
       <<Txt("serializedlength"), Num(v.slen)>>,
       <<Txt("lru"), Num(0)>>, <<Txt("lru_seconds_idle"), Num(0)>> >>

StrLen(v) == Len(v.elems[1])

\* The store's reply to command c run against database d.
Reply(c, d) ==
    LET v == IF c.key.k \in {"bytes", "str"} /\ c.key.v \in Keys
             THEN store[d][c.key.v] ELSE NoKey
        absent == v.type = "none"
    IN  CASE c.cmd = "TYPE" -> PyBytes(v.type)
          [] c.cmd = "OBJECT REFCOUNT" -> IF absent THEN PyNone ELSE PyInt(1)
          [] c.cmd = "OBJECT ENCODING" ->
                IF absent THEN PyNone ELSE PyBytes(EncodingOf(v.type))
          [] c.cmd = "OBJECT IDLETIME" -> IF absent THEN PyNone ELSE PyInt(0)
          [] c.cmd = "TTL" -> PyInt(v.ttl)
          [] c.cmd = "DBSIZE" ->
                PyInt(Cardinality({key \in Keys : store[d][key].type # "none"}))
          [] c.cmd = "DEBUG OBJECT" ->
                IF absent THEN Err("ERR no such key")
                ELSE [k |-> "text", v |-> DebugObjectText(v)]
          [] c.cmd \in {"LLEN", "SCARD", "ZCOUNT", "HLEN", "STRLEN"} ->
                IF absent THEN PyInt(0)
                ELSE IF v.type # TypeOfCmd[c.cmd] THEN Err("WRONGTYPE")
                ELSE IF c.cmd = "STRLEN" THEN PyInt(StrLen(v))
                ELSE IF c.cmd = "HLEN" THEN PyInt(Len(v.elems) \div 2)
                ELSE PyInt(Len(v.elems))
          [] c.cmd \in {"LRANGE", "SMEMBERS", "ZRANGE", "HGETALL", "GET"} ->
                IF absent THEN [k |-> "elems", v |-> <<>>, utf8 |-> TRUE]
                ELSE IF v.type # TypeOfCmd[c.cmd] THEN Err("WRONGTYPE")
                ELSE [k |-> "elems", v |-> v.elems, utf8 |-> v.utf8]
          [] OTHER -> Err("ERR unknown command")

\* redis-py's response callback: the 2.x Redis class turns a TTL reply that is
\* negative or zero into None (r >= 0 and r or None); 3.x returns the integer.
Callback(c, r) ==
    IF c.cmd = "TTL" /\ legacy /\ r.k = "int" /\ r.v <= 0 THEN PyNone ELSE r

SetMin(S) == CHOOSE x \in S : \A y \in S : x <= y

\* pipe.execute(): the queued commands run in order against the selected
\* database in one MULTI/EXEC round trip; the first error reply is raised.
\* The 3.x client refuses to encode None (DataError) before anything is sent.
Execute(cmds, d) ==
    IF ~legacy /\ \E i \in 1..Len(cmds) : cmds[i].key.k = "None"
    THEN Raise("DataError", "Invalid input of type: 'NoneType'")
    ELSE LET replies == [i \in 1..Len(cmds) |-> Callback(cmds[i], Reply(cmds[i], d))]
             errs == {i \in 1..Len(cmds) : replies[i].k = "err"}
         IN  IF errs # {} THEN Raise("ResponseError", replies[SetMin(errs)].v)
             ELSE Return(replies)

---------------------------------------------------------------------------
\* The key inspector.

\* The batch _get_key_info queues for a key of type obj_type.
KeyInfoBatch(obj_type, key) ==
    << Cmd("OBJECT REFCOUNT", key), Cmd("OBJECT ENCODING", key),
       Cmd("OBJECT IDLETIME", key), Cmd(LENGTH_GETTERS[obj_type.v], key),
       Cmd("TTL", key) >>

\* The KeyInfo of the except branch.
DegradedKeyInfo(obj_type, key, exc) ==
    [type |-> obj_type, name |-> key, length |-> NA, error |-> PyStr(exc.msg),
     ttl |-> NA, refcount |-> NA, encoding |-> NA, idletime |-> NA]

\* The KeyInfo built from the batch's replies, destructured by position.
NormalKeyInfo(obj_type, key, r) ==
    [type |-> _decode_bytes(obj_type), name |-> key, length |-> r[4],
     ttl |-> r[5], refcount |-> r[1], encoding |-> _decode_bytes(r[2]),
     idletime |-> r[3]]

\* _get_key_info from the line after conn.type(key) on: the lookup in
\* LENGTH_GETTERS (a KeyError when the type is not a key of it), the batch run
\* against database d, and the dict returned.
_get_key_info(obj_type, key, d) ==
    IF ~(obj_type.k = "bytes" /\ obj_type.v \in DOMAIN LENGTH_GETTERS)
    THEN Raise("KeyError", obj_type.v)
    ELSE LET r == Execute(KeyInfoBatch(obj_type, key), d)
         IN  IF r.raised
             THEN IF r.exc = "ResponseError"
                  THEN Return(DegradedKeyInfo(obj_type, key, r))
                  ELSE r
             ELSE Return(NormalKeyInfo(obj_type, key, r.value))

RECURSIVE Enumerate(_, _)
\* [(pos + start, val) for (pos, val) in enumerate(elems)], values as bytes.
Enumerate(elems, start) ==
    IF elems = <<>> THEN <<>>
    ELSE <<[first |-> PyInt(start), second |-> PyBytes(Head(elems))]>>
         \o Enumerate(Tail(elems), start + 1)

RECURSIVE Items(_)
\* hgetall(key).items(): the flat reply paired into (field, value).
Items(elems) ==
    IF Len(elems) < 2 THEN <<>>
    ELSE <<[first |-> PyBytes(elems[1]), second |-> PyBytes(elems[2])]>>
         \o Items(Tail(Tail(elems)))

\* VALUE_GETTERS[type](conn, key) run against database d.
ValueGetter(type, key, d) ==
    IF type = "n/a" THEN Return(PySeq(<<>>))
    ELSE LET r == Execute(<<Cmd(VALUE_GETTERS[type], key)>>, d)
         IN  IF r.raised THEN r
             ELSE LET elems == r.value[1].v
                  IN  CASE type = "string" ->
                             Return(PySeq(<<[first |-> PyStr("string"),
                                       second |-> IF elems = <<>> THEN PyNone
                                                  ELSE _decode_bytes(
                                                      IF r.value[1].utf8
                                                      THEN PyBytes(elems[1])
                                                      ELSE RawBytes(elems[1]))]>>))
                        [] type = "hash" -> Return(PySeq(Items(elems)))
                        [] OTHER -> Return(PySeq(Enumerate(elems, 0)))

---------------------------------------------------------------------------
\* The database sampler's arithmetic.

RECURSIVE DigitsToInt(_)
\* int(b"..."): the number a decimal text denotes.
DigitsToInt(d) ==
    IF d = <<>> THEN 0
    ELSE 10 * DigitsToInt(SubSeq(d, 1, Len(d) - 1)) + d[Len(d)]

\* int(value), or value itself when it is not a number (ValueError).
safeint(value) == IF value.num THEN PyInt(DigitsToInt(value.d)) ELSE value

_fixup_pair(pair) == <<pair[1].s, safeint(pair[2])>>

\* dict(_fixup_pair(i.split(b":")) for i in details.split() if b":" in i):
\* a later token of the same name overwrites an earlier one.
ParseDebugObject(tokens) ==
    LET with == {i \in 1..Len(tokens) : Len(tokens[i]) > 1}
        names == {_fixup_pair(tokens[i])[1] : i \in with}
        last(n) == CHOOSE i \in with :
                       /\ _fixup_pair(tokens[i])[1] = n
                       /\ \A j \in with : _fixup_pair(tokens[j])[1] = n => j <= i
    IN  [n \in names |-> _fixup_pair(tokens[last(n)])[2]]

\* Python truth of a TTL reply: None and 0 are false, every other integer
\* (100, and -1 and -2 too) is true.
Truthy(x) == ~(x.k = "None" \/ (x.k = "int" /\ x.v = 0))

AccInit ==
    [total_memory |-> 0, volatile_memory |-> 0, persistent_memory |-> 0,
     total_keys |-> 0, volatile_keys |-> 0, persistent_keys |-> 0]

\* length = details[b"serializedlength"] + len(key)
KeyLength(key, details) ==
    ParseDebugObject(details.v)["serializedlength"].v + Len(key.v)

\* One pass of the loop body over (key, details, ttl): the branch taken on ttl.
Bucket(acc, length, ttl) ==
    IF Truthy(ttl)
    THEN [acc EXCEPT !.persistent_memory = @ + length, !.persistent_keys = @ + 1,
                     !.total_memory = @ + length, !.total_keys = @ + 1]
    ELSE [acc EXCEPT !.volatile_memory = @ + length, !.volatile_keys = @ + 1,
                     !.total_memory = @ + length, !.total_keys = @ + 1]

RECURSIVE Accumulate(_, _, _, _)
\* for key, details, ttl in zip(keys, results[::2], results[1::2]): ...
Accumulate(keys, results, i, acc) ==
    IF i > Len(keys) \/ 2 * i > Len(results) THEN acc
    ELSE Accumulate(keys, results, i + 1,
                    Bucket(acc, KeyLength(keys[i], results[2 * i - 1]), results[2 * i]))

RECURSIVE GCD(_, _)
GCD(a, b) == IF b = 0 THEN a ELSE GCD(b, a % b)

\* The real number n / d (d > 0), as a fraction in lowest terms; the rounding
\* of Python's float division is not modelled.
Frac(n, d) == LET g == GCD(n, d) IN [num |-> n \div g, den |-> d \div g]

\* The same with the division of integers rounding down (Python 2's /).
ScaleFloorDiv(memory, keys, size) ==
    IF keys # 0 THEN Frac((memory \div keys) * size, 1) ELSE Frac(0, 1)

\* (memory / keys) * size when keys is not zero, else 0.
Scale(memory, keys, size) ==
    IF keys # 0 THEN Frac(memory * size, keys) ELSE Frac(0, 1)

\* The dict _get_db_summary returns from the accumulated sums.
Summary(acc, size) ==
    [size |-> size,
     total_memory |-> Scale(acc.total_memory, acc.total_keys, size),
     volatile_memory |-> Scale(acc.volatile_memory, acc.volatile_keys, size),
     persistent_memory |-> Scale(acc.persistent_memory, acc.persistent_keys, size)]

\* sorted(set(results)) of the random-key draws: the distinct keys in order,
\* or [None] when every draw answered nil.
SortedSet(drawn) ==
    IF drawn = {} THEN <<PyNone>>
    ELSE LET sel == SelectSeq(AllKeys, LAMBDA x : x \in drawn)
         IN  [i \in 1..Len(sel) |-> PyBytes(sel[i])]

\* The second batch: DEBUG OBJECT and TTL for every sampled key, in order.
DetailBatch(keys) ==
    [i \in 1..(2 * Len(keys)) |->
        IF i % 2 = 1 THEN Cmd("DEBUG OBJECT", keys[(i + 1) \div 2])
        ELSE Cmd("TTL", keys[i \div 2])]

\* conn.scan(cursor, count) against database d: the next cursor (0 when the
\* iteration is over) and the keys found in the slots visited.
ScanReply(cursor, count, d) ==
    LET hi == IF cursor + count >= Len(AllKeys) THEN Len(AllKeys) ELSE cursor + count
        slots == SubSeq(AllKeys, cursor + 1, hi)
    IN  [cursor |-> IF hi = Len(AllKeys) THEN 0 ELSE hi,
         keys |-> SelectSeq(slots, LAMBDA x : store[d][x].type # "none")]

---------------------------------------------------------------------------
\* The request threads.

LocInit ==
    [keys |-> <<>>, i |-> 0, obj_type |-> PyNone, key_details |-> <<>>,
     details |-> NoResult, new_cursor |-> 0, size |-> 0, results |-> <<>>,
     acc |-> AccInit, reads |-> {}]

NoRequest == [op |-> "none", db |-> 0, key |-> AllKeys[1], cursor |-> 0, count |-> 1]

Requests ==
    {[op |-> "db_details", db |-> d, key |-> AllKeys[1], cursor |-> c, count |-> n] :
        d \in DBs, c \in 0..(Len(AllKeys) - 1), n \in 1..MaxCount}
    \cup {[op |-> "key_details", db |-> d, key |-> key, cursor |-> 0, count |-> 1] :
            d \in DBs, key \in Keys}
    \cup {[op |-> "db_summary", db |-> d, key |-> AllKeys[1], cursor |-> 0, count |-> 1] :
            d \in DBs}

\* The key the inspector is working on.
CurrentKey(t) ==
    IF req[t].op = "key_details" THEN PyStr(req[t].key) ELSE loc[t].keys[loc[t].i]

\* A request arrives and is routed to one of the three functions.
Request(t) ==
    /\ pc[t] = "idle"
    /\ \E r \in Requests : req' = [req EXCEPT ![t] = r]
    /\ pc' = [pc EXCEPT ![t] = "select"]
    /\ loc' = [loc EXCEPT ![t] = LocInit]
    /\ res' = [res EXCEPT ![t] = NoResult]
    /\ UNCHANGED <<store, seldb, legacy, writes>>
    /\ UNCHANGED statsVars

\* conn = server.connection (cached on first use) and
\* conn.execute_command("SELECT", db) on the shared client.
Select(t) ==
    /\ pc[t] = "select"
    /\ connection' = "client"
    /\ seldb' = req[t].db
    /\ pc' = [pc EXCEPT ![t] = CASE req[t].op = "db_details" -> "scan"
                                 [] req[t].op = "key_details" -> "type"
                                 [] OTHER -> "sample"]
    /\ UNCHANGED <<store, legacy, writes, req, loc, res>>
    /\ UNCHANGED <<up, info, slowlog, stats>>

\* _get_db_details: conn.scan, and the return when the page is empty.
Scan(t) ==
    /\ pc[t] = "scan"
    /\ LET r == ScanReply(req[t].cursor, req[t].count, seldb)
           keys == [i \in 1..Len(r.keys) |-> PyStr(r.keys[i])]
       IN  /\ loc' = [loc EXCEPT ![t].new_cursor = r.cursor, ![t].keys = keys,
                                 ![t].i = 1, ![t].reads = @ \cup {seldb}]
           /\ IF keys = <<>>
              THEN /\ res' = [res EXCEPT ![t] =
                                Return([keys |-> <<>>, cursor |-> r.cursor])]
                   /\ pc' = [pc EXCEPT ![t] = "done"]
              ELSE /\ res' = res
                   /\ pc' = [pc EXCEPT ![t] = "type"]
    /\ UNCHANGED <<store, seldb, legacy, writes, req>>
    /\ UNCHANGED statsVars

\* _get_key_info: obj_type = conn.type(key).
ConnType(t) ==
    /\ pc[t] = "type"
    /\ loc' = [loc EXCEPT ![t].obj_type = Reply(Cmd("TYPE", CurrentKey(t)), seldb),
                          ![t].reads = @ \cup {seldb}]
    /\ pc' = [pc EXCEPT ![t] = "batch"]
    /\ UNCHANGED <<store, seldb, legacy, writes, req, res>>
    /\ UNCHANGED statsVars

\* _get_key_details after _get_key_info returned details: the db attached and
\* the choice of data; "fetch" when a content command is still to run.
KeyDetailsNext(t, details) ==
    LET withdb == ("db" :> req[t].db) @@ details
    IN  IF details.type.k = "str" /\ details.type.v \in {"list", "zset"}
        THEN [pc |-> "done", res |-> Return(("data" :> PyNone) @@ withdb)]
        ELSE IF ~(details.type.k = "str" /\ details.type.v \in DOMAIN VALUE_GETTERS)
        THEN [pc |-> "done", res |-> Raise("KeyError", details.type.v)]
        ELSE [pc |-> "fetch", res |-> NoResult]

\* _get_key_info from the batch on, and what its caller does with the KeyInfo.
KeyInfo(t) ==
    /\ pc[t] = "batch"
    /\ LET key == CurrentKey(t)
           r == _get_key_info(loc[t].obj_type, key, seldb)
           reads == IF r.raised /\ r.exc = "KeyError" THEN loc[t].reads
                    ELSE loc[t].reads \cup {seldb}
       IN  IF r.raised
           THEN /\ res' = [res EXCEPT ![t] = r]
                /\ pc' = [pc EXCEPT ![t] = "done"]
                /\ loc' = [loc EXCEPT ![t].details = r, ![t].reads = reads]
           ELSE IF req[t].op = "key_details"
           THEN LET n == KeyDetailsNext(t, r.value)
                IN  /\ res' = [res EXCEPT ![t] = n.res]
                    /\ pc' = [pc EXCEPT ![t] = n.pc]
                    /\ loc' = [loc EXCEPT ![t].details = r, ![t].reads = reads]
           ELSE LET kd == (key.v :> r.value) @@ loc[t].key_details
                IN  /\ loc' = [loc EXCEPT ![t].key_details = kd, ![t].i = @ + 1,
                                          ![t].details = r, ![t].reads = reads]
                    /\ IF loc[t].i = Len(loc[t].keys)
                       THEN /\ res' = [res EXCEPT ![t] =
                                         Return([keys |-> kd,
                                                 cursor |-> loc[t].new_cursor])]
                            /\ pc' = [pc EXCEPT ![t] = "done"]
                       ELSE /\ res' = res
                            /\ pc' = [pc EXCEPT ![t] = "type"]
    /\ UNCHANGED <<store, seldb, legacy, writes, req>>
    /\ UNCHANGED statsVars

\* _get_key_details: details["data"] = VALUE_GETTERS[details["type"]](conn, key).
FetchData(t) ==
    /\ pc[t] = "fetch"
    /\ LET details == ("db" :> req[t].db) @@ loc[t].details.value
           r == ValueGetter(details.type.v, PyStr(req[t].key), seldb)
       IN  /\ res' = [res EXCEPT ![t] =
                        IF r.raised THEN r ELSE Return(("data" :> r.value) @@ details)]
           /\ loc' = [loc EXCEPT ![t].reads =
                        IF details.type.v = "n/a" THEN @ ELSE @ \cup {seldb}]
    /\ pc' = [pc EXCEPT ![t] = "done"]
    /\ UNCHANGED <<store, seldb, legacy, writes, req>>
    /\ UNCHANGED statsVars

\* _get_db_summary: the first batch, dbsize and the random-key draws (MaxDraws
\* of them stand for sampling_threshold), and keys = sorted(set(results)).
SampleKeys(t) ==
    /\ pc[t] = "sample"
    /\ LET existing == {key \in Keys : store[seldb][key].type # "none"}
           size == Reply(Cmd("DBSIZE", PyStr("")), seldb).v
       IN  \E drawn \in SUBSET existing :
              /\ IF existing = {} THEN drawn = {}
                 ELSE drawn # {} /\ Cardinality(drawn) <= MaxDraws
              /\ loc' = [loc EXCEPT ![t].size = size, ![t].keys = SortedSet(drawn),
                                    ![t].reads = @ \cup {seldb}]
    /\ pc' = [pc EXCEPT ![t] = "debug"]
    /\ UNCHANGED <<store, seldb, legacy, writes, req, res>>
    /\ UNCHANGED statsVars

\* _get_db_summary: the second batch, the loop over its results and the scaling.
SampleDetails(t) ==
    /\ pc[t] = "debug"
    /\ LET r == Execute(DetailBatch(loc[t].keys), seldb)
       IN  IF r.raised
           THEN /\ res' = [res EXCEPT ![t] = r]
                /\ loc' = [loc EXCEPT ![t].reads = @ \cup {seldb}]
           ELSE LET acc == Accumulate(loc[t].keys, r.value, 1, AccInit)
                IN  /\ res' = [res EXCEPT ![t] = Return(Summary(acc, loc[t].size))]
                    /\ loc' = [loc EXCEPT ![t].results = r.value, ![t].acc = acc,
                                          ![t].reads = @ \cup {seldb}]
    /\ pc' = [pc EXCEPT ![t] = "done"]
    /\ UNCHANGED <<store, seldb, legacy, writes, req>>
    /\ UNCHANGED statsVars

\* The view renders what the function returned (or the error page) and the
\* thread is free again.
Respond(t) ==
    /\ pc[t] = "done"
    /\ pc' = [pc EXCEPT ![t] = "idle"]
    /\ req' = [req EXCEPT ![t] = NoRequest]
    /\ loc' = [loc EXCEPT ![t] = LocInit]
    /\ res' = [res EXCEPT ![t] = NoResult]
    /\ UNCHANGED <<store, seldb, legacy, writes>>
    /\ UNCHANGED statsVars

\* Another client of the store writes a key (SET, RPUSH, ... with or without
\* EXPIRE) or removes one (DEL, or the key expires).
Write ==
    /\ writes < MaxWrites
    /\ \E d \in DBs, key \in Keys, v \in WriteValues \cup {NoKey} :
          /\ store[d][key] # v
          /\ store' = [store EXCEPT ![d][key] = v]
    /\ writes' = writes + 1
    /\ UNCHANGED <<seldb, legacy, pc, req, loc, res>>
    /\ UNCHANGED statsVars

---------------------------------------------------------------------------
\* The server stats aggregator.

REDISBOARD_DETAIL_FILTERS ==
    {"aof_enabled", "bgrewriteaof_in_progress", "bgsave_in_progress",
     "changes_since_last_save", "last_save_time", "multiplexing_api",
     "total_commands_processed", "total_connections_received",
     "uptime_in_days", "uptime_in_seconds", "vm_enabled", "redis_version"}
REDISBOARD_DETAIL_TIMESTAMP_KEYS == {"last_save_time"}
REDISBOARD_DETAIL_SECONDS_KEYS == {"uptime_in_seconds"}

\* The INFO reply: a server older than 2.6 reports last_save_time, a newer one
\* rdb_last_save_time; a dbN entry is reported for every database holding keys.
InfoReply(old, clients) ==
    ("redis_version" :> PyStr(IF old THEN "2.4" ELSE "6.2"))
    @@ ("used_memory_human" :> PyStr("1M"))
    @@ ("used_memory_peak_human" :> PyStr("2M"))
    @@ ("connected_clients" :> PyInt(clients))
    @@ ("uptime_in_seconds" :> PyInt(60))
    @@ ((IF old THEN "last_save_time" ELSE "rdb_last_save_time") :> PyInt(1600000000))
    @@ ("db0" :> PyStr("keys=2"))

\* k.startswith(p), over the names an INFO reply holds.
StartsWith(k, p) == k = p \/ (p = "db" /\ k = "db0")

\* name.match(k) of the compiled pattern: k begins with name.
Matches(name, k) == StartsWith(k, name)

\* k[2:]
DropTwo(k) == IF k = "db0" THEN "0" ELSE k

\* prettify raises where it calls datetime.fromtimestamp: datetime is the
\* module, which has no such attribute.
PrettifyRaises(key) ==
    key \notin REDISBOARD_DETAIL_SECONDS_KEYS /\ key \in REDISBOARD_DETAIL_TIMESTAMP_KEYS

\* The value prettify pairs with key (where it does not raise).
prettify(key, value) ==
    IF key \in REDISBOARD_DETAIL_SECONDS_KEYS
    THEN [k |-> "timedelta", v |-> value.v]
    ELSE value

BriefKeys(i) == {k \in DOMAIN i : \E name \in REDISBOARD_DETAIL_FILTERS : Matches(name, k)}

\* The dict of the except branch.
DegradedStats(exc) ==
    [status |-> <<"ERROR", exc>>, clients |-> NA, memory |-> NA,
     details |-> <<>>, brief_details |-> <<>>, slowlog |-> <<>>,
     slowlog_len |-> PyInt(0)]

\* The dict of the try branch, from the three replies.
NormalStats(i, sl) ==
    [status |-> <<"UP">>,
     details |-> i,
     memory |-> <<i["used_memory_human"],
                  IF "used_memory_peak_human" \in DOMAIN i
                  THEN i["used_memory_peak_human"] ELSE NA>>,
     clients |-> i["connected_clients"],
     brief_details |-> [k \in BriefKeys(i) |-> prettify(k, i[k])],
     db |-> [n \in {DropTwo(k) : k \in {x \in DOMAIN i : StartsWith(x, "db")}} |->
                i[CHOOSE k \in DOMAIN i : StartsWith(k, "db") /\ DropTwo(k) = n]],
     slowlog |-> sl,
     slowlog_len |-> PyInt(Len(sl))]

\* The body of RedisServer.stats run now: the three fetches and the reshaping,
\* any exception turned into the degraded dict.
ComputeStats ==
    IF ~up THEN DegradedStats("ConnectionError")
    ELSE IF {"used_memory_human", "connected_clients"} \ DOMAIN info # {}
    THEN DegradedStats("KeyError")
    ELSE IF \E k \in BriefKeys(info) : PrettifyRaises(k)
    THEN DegradedStats("AttributeError")
    ELSE NormalStats(info, slowlog)

\* server.stats, a cached_property of the module-level server object: the
\* first access runs the body and stores the result in the instance's
\* __dict__, every later access returns what is stored.
CachedStats == IF stats = <<>> THEN ComputeStats ELSE stats[1]

\* A request for "/" arrives.
RequestInfo(t) ==
    /\ pc[t] = "idle"
    /\ req' = [req EXCEPT ![t] = [NoRequest EXCEPT !.op = "info"]]
    /\ pc' = [pc EXCEPT ![t] = "stats"]
    /\ loc' = [loc EXCEPT ![t] = LocInit]
    /\ res' = [res EXCEPT ![t] = NoResult]
    /\ UNCHANGED <<store, seldb, legacy, writes>>
    /\ UNCHANGED statsVars

\* The "/" route: render_template("info.html", stats=server.stats). The body
\* of stats creates the client on its first run (self.connection).
InfoRequest(t) ==
    /\ pc[t] = "stats"
    /\ connection' = IF stats = <<>> THEN "client" ELSE connection
    /\ stats' = <<CachedStats>>
    /\ res' = [res EXCEPT ![t] = Return(CachedStats)]
    /\ pc' = [pc EXCEPT ![t] = "done"]
    /\ UNCHANGED <<up, info, slowlog>>
    /\ UNCHANGED <<store, seldb, legacy, writes, req, loc>>

\* The store becomes unreachable, or reachable again.
StoreDown ==
    /\ up
    /\ up' = FALSE
    /\ UNCHANGED <<info, slowlog, connection, stats>>
    /\ UNCHANGED engineVars

StoreUp ==
    /\ ~up
    /\ up' = TRUE
    /\ UNCHANGED <<info, slowlog, connection, stats>>
    /\ UNCHANGED engineVars

\* A metric of the store changes: a client connects or disconnects.
ClientsChange ==
    /\ up
    /\ \E n \in 1..MaxClients :
          /\ info["connected_clients"] # PyInt(n)
          /\ info' = [info EXCEPT !["connected_clients"] = PyInt(n)]
    /\ UNCHANGED <<up, slowlog, connection, stats>>
    /\ UNCHANGED engineVars

\* The store logs a slow command.
SlowCommand ==
    /\ up
    /\ Len(slowlog) < MaxSlowlog
    /\ slowlog' = <<[id |-> Len(slowlog), duration |-> 20000]>> \o slowlog
    /\ UNCHANGED <<up, info, connection, stats>>
    /\ UNCHANGED engineVars

---------------------------------------------------------------------------

\* The state after the module is imported: server = RedisServer() with nothing
\* cached, and a store some client has filled.
InitEngine ==
    /\ store = [d \in DBs |-> [key \in Keys |->
                  IF d = 0 THEN (IF key = "a" THEN StringX ELSE List123) ELSE NoKey]]
    /\ seldb = 0
    /\ legacy \in BOOLEAN
    /\ writes = 0
    /\ pc = [t \in Threads |-> "idle"]
    /\ req = [t \in Threads |-> NoRequest]
    /\ loc = [t \in Threads |-> LocInit]
    /\ res = [t \in Threads |-> NoResult]
    /\ up = TRUE
    /\ slowlog = <<>>
    /\ connection = "unset"
    /\ stats = <<>>

Init == InitEngine /\ info = InfoReply(FALSE, 1)

\* The same, against a store of either generation.
InitStats == InitEngine /\ info \in {InfoReply(old, 1) : old \in BOOLEAN}

Step(t) ==
    \/ Request(t)
    \/ Select(t)
    \/ Scan(t)
    \/ ConnType(t)
    \/ KeyInfo(t)
    \/ FetchData(t)
    \/ SampleKeys(t)
    \/ SampleDetails(t)
    \/ Respond(t)

\* One request at a time, and a concurrent writer.
Next == Step(1) \/ Write

Spec == Init /\ [][Next]_vars

\* Two requests at a time (the threaded server), the store left alone.
NextConcurrent == \E t \in Threads : Step(t)

SpecConcurrent == Init /\ [][NextConcurrent]_vars

\* Requests for "/" while the store's state changes.
NextStats ==
    \/ RequestInfo(1)
    \/ InfoRequest(1)
    \/ Respond(1)
    \/ StoreDown
    \/ StoreUp
    \/ ClientsChange
    \/ SlowCommand

SpecStats == InitStats /\ [][NextStats]_vars

---------------------------------------------------------------------------
\* Properties.

MetaFields == {"length", "ttl", "refcount", "encoding", "idletime"}

\* C1: _get_key_info never raises, whatever the key's state in the store,
\* and in the KeyInfo it returns the error field is present exactly when one
\* of length, ttl, refcount, encoding, idletime is "n/a".
C1_InspectNeverRaises ==
    \A t \in Threads :
        LET r == loc[t].details
        IN  /\ ~r.raised
            /\ "name" \in DOMAIN r.value =>
                  (("error" \in DOMAIN r.value)
                      <=> (\E f \in MetaFields : PyEq(r.value[f], NA)))

\* A TTL reply that reports an expiry.
HasTtl(reply) == reply.k = "int" /\ reply.v >= 0

\* C2: every sampled key is counted in exactly one bucket, volatile_keys +
\* persistent_keys = total_keys, and the bucket is the volatile one exactly
\* when the key has a TTL: volatile_keys is the number of sampled keys with a
\* TTL, persistent_keys the number of those without.
C2_BucketIsVolatileIffTtlSet ==
    \A t \in Threads :
        (pc[t] = "done" /\ req[t].op = "db_summary" /\ ~res[t].raised) =>
            LET n == Len(loc[t].keys)
                withTtl == {i \in 1..n : HasTtl(loc[t].results[2 * i])}
                acc == loc[t].acc
            IN  /\ acc.volatile_keys + acc.persistent_keys = acc.total_keys
                /\ acc.total_keys = n
                /\ acc.volatile_keys = Cardinality(withTtl)
                /\ acc.persistent_keys = n - Cardinality(withTtl)

\* C3: _get_db_details returns the store's next cursor and one KeyInfo for
\* every key the scan returned, also when a key vanishes between the scan and
\* its inspection: the call is never aborted and no key of the page is dropped.
C3_EnumerateKeepsEveryKey ==
    \A t \in Threads :
        (pc[t] = "done" /\ req[t].op = "db_details") =>
            /\ ~res[t].raised
            /\ res[t].value.cursor = loc[t].new_cursor
            /\ DOMAIN res[t].value.keys =
                   {loc[t].keys[i].v : i \in 1..Len(loc[t].keys)}

\* C6: _get_db_summary on a database without keys (dbsize 0, every draw nil)
\* completes and returns the three memory estimates as exactly 0.
C6_EmptyDbSummaryIsZero ==
    \A t \in Threads :
        (pc[t] = "done" /\ req[t].op = "db_summary"
            /\ loc[t].size = 0 /\ Len(loc[t].keys) >= 1
            /\ \A i \in 1..Len(loc[t].keys) : IsNone(loc[t].keys[i])) =>
            /\ ~res[t].raised
            /\ res[t].value.total_memory = [num |-> 0, den |-> 1]
            /\ res[t].value.volatile_memory = [num |-> 0, den |-> 1]
            /\ res[t].value.persistent_memory = [num |-> 0, den |-> 1]

\* C8: _get_key_details returns a KeyDetail with db the requested database,
\* data None exactly when the type is list or zset and otherwise the contents,
\* the empty sequence for a key of type none / n/a; it raises no lookup error
\* (every type the store holds here is a recognized one).
C8_KeyDetailData ==
    \A t \in Threads :
        (pc[t] = "done" /\ req[t].op = "key_details") =>
            /\ res[t].raised => res[t].exc # "KeyError"
            /\ ~res[t].raised =>
                  LET d == res[t].value
                  IN  /\ d.db = req[t].db
                      /\ IsNone(d.data) <=> (d.type.v \in {"list", "zset"})
                      /\ d.type.v \in {"none", "n/a"} => PyEq(d.data, PySeq(<<>>))

\* C9: after the type query _get_key_info runs one batch, refcount, encoding,
\* idletime, length (left out for type none), ttl, and every field of the
\* KeyInfo is the reply of its own command, for every type, none included.
C9_BatchFieldsPerType ==
    [][\A t \in Threads :
          (pc[t] = "batch" /\ pc'[t] # "batch") =>
              LET r == loc'[t].details
                  key == CurrentKey(t)
                  type == loc[t].obj_type.v
                  own(c) == Callback(Cmd(c, key), Reply(Cmd(c, key), seldb))
              IN  /\ ~r.raised
                  /\ "error" \notin DOMAIN r.value =>
                        /\ PyEq(r.value.refcount, own("OBJECT REFCOUNT"))
                        /\ PyEq(r.value.encoding, _decode_bytes(own("OBJECT ENCODING")))
                        /\ PyEq(r.value.idletime, own("OBJECT IDLETIME"))
                        /\ PyEq(r.value.ttl, own("TTL"))
                        /\ type # "none" =>
                              PyEq(r.value.length, own(LENGTH_GETTERS[type]))]_vars

\* C10: every command a request issues after its SELECT runs against the
\* database that request selected, in every interleaving of two requests.
C10_ReadsSelectedDb ==
    \A t \in Threads : loc[t].reads \subseteq {req[t].db}

StatsFields ==
    {"status", "details", "memory", "clients", "brief_details", "db",
     "slowlog", "slowlog_len"}

\* The reshaping of the three replies raises nothing.
ReshapeOk ==
    /\ {"used_memory_human", "connected_clients"} \subseteq DOMAIN info
    /\ \A k \in BriefKeys(info) : ~PrettifyRaises(k)

\* C4: server.stats never raises; when a fetch or the reshaping fails it is
\* the degraded ServerStats, status starting with ERROR, clients "n/a",
\* slowlog [] and every other field of the normal result present and empty;
\* when the store answers and the reshaping succeeds, status is UP.
C4_StatsDegradesWithEveryField ==
    [][\A t \in Threads :
          (pc[t] = "stats" /\ pc'[t] = "done") =>
              /\ ~res'[t].raised
              /\ LET r == res'[t].value
                 IN  IF up /\ ReshapeOk
                     THEN r.status = <<"UP">>
                     ELSE /\ r.status[1] = "ERROR"
                          /\ PyEq(r.clients, NA)
                          /\ r.slowlog = <<>>
                          /\ DOMAIN r = StatsFields
                          /\ r.details = <<>> /\ r.brief_details = <<>>
                          /\ r.db = <<>>
                          /\ PyEq(r.slowlog_len, PyInt(0))]_vars

\* Two stats dicts are the same dict.
SameStats(x, y) ==
    /\ x.status = y.status
    /\ DOMAIN x = DOMAIN y
    /\ x.status[1] = "UP" => x = y

\* C5: stats are recomputed on every request: each request for "/" renders
\* the stats of the store's state at that moment, never an earlier result.
C5_StatsAreFresh ==
    [][\A t \in Threads :
          (pc[t] = "stats" /\ pc'[t] = "done") =>
              SameStats(res'[t].value, ComputeStats)]_vars

RECURSIVE SumLengths(_, _)
\* The lengths (serialized length + length of the name) of the keys S of
\* database d, summed.
SumLengths(S, d) ==
    IF S = {} THEN 0
    ELSE LET key == CHOOSE x \in S : TRUE
         IN  store[d][key].slen + Len(key) + SumLengths(S \ {key}, d)

\* The estimate est is (sum of the lengths of S / number of keys in S) * size,
\* and 0 when S is empty.
IsScaled(est, S, d, size) ==
    /\ est.den > 0
    /\ IF S = {} THEN est.num = 0
       ELSE est.num * Cardinality(S) = est.den * SumLengths(S, d) * size

\* C7: each estimate _get_db_summary returns is (summed length of the sampled
\* keys of the group / number of them) * dbsize, the total over all sampled
\* keys and each bucket over the keys counted in it, 0 for an empty group, a
\* key's length being serializedlength + len(name); so when every sampled
\* key has the same length L, total_memory = L * dbsize.
C7_ScalingInvariant ==
    [][\A t \in Threads :
          (pc[t] = "debug" /\ pc'[t] = "done" /\ ~res'[t].raised) =>
              LET keys == loc[t].keys
                  sampled == {keys[i].v : i \in 1..Len(keys)}
                  inPersistent == {keys[i].v : i \in
                      {j \in 1..Len(keys) : Truthy(loc'[t].results[2 * j])}}
                  size == loc[t].size
                  out == res'[t].value
              IN  /\ out.size = size
                  /\ IsScaled(out.total_memory, sampled, seldb, size)
                  /\ IsScaled(out.persistent_memory, inPersistent, seldb, size)
                  /\ IsScaled(out.volatile_memory, sampled \ inPersistent, seldb, size)
                  /\ LET first == keys[1].v
                         L == store[seldb][first].slen + Len(first)
                     IN  (\A key \in sampled : store[seldb][key].slen + Len(key) = L)
                            => out.total_memory = [num |-> L * size, den |-> 1]]_vars

\* A summary of two sampled keys of the same length L has been returned, with
\* total_memory = L * dbsize.
C7_Witness ==
    /\ pc[1] = "done" /\ req[1].op = "db_summary" /\ ~res[1].raised
    /\ Len(loc[1].keys) = 2 /\ loc[1].size = 2
    /\ KeyLength(loc[1].keys[1], loc[1].results[1])
           = KeyLength(loc[1].keys[2], loc[1].results[3])
    /\ res[1].value.total_memory =
           [num |-> 2 * KeyLength(loc[1].keys[1], loc[1].results[1]), den |-> 1]

====
